---- MODULE Spec2Model ----
(***************************************************************************)
(* A model of praw/models/reddit/submission.py: the Submission entity, its *)
(* URL resolver (id_from_url), its constructor, the attribute interceptor  *)
(* (__setattr__), the lazy fetch (_fetch) and the flair and moderation     *)
(* controllers.                                                            *)
(*                                                                         *)
(* Objects live in a heap: objs maps an object id to the object's          *)
(* __dict__ (a function from the names of the attributes that are present  *)
(* to their values).  Object 0 is the entity the caller holds; every       *)
(* record the transport returns is a Submission of its own, built from raw *)
(* data by the same constructor.  Comment forests are objects of a second  *)
(* heap.                                                                   *)
(***************************************************************************)
EXTENDS Integers, Sequences, FiniteSets, TLC

VARIABLES
    objs,       \* object id -> __dict__ of the Submission with that id
    forests,    \* forest id -> [submission, nodes] of the CommentForest
    nextObj,    \* the next object id to hand out
    gets,       \* the requests Transport.get has seen
    posts,      \* the requests Transport.post has seen
    phase,      \* "new", "live" or "failed": the constructor's position
    origin,     \* what the entity was constructed from
    last,       \* the last operation of the caller and its outcome
    callerSet,  \* the attributes the caller has assigned
    rsrc,       \* the parts the URL handed to id_from_url was written from
    rurl,       \* the URL handed to id_from_url on its own
    rres,       \* its result, "pending" before the call
    callers     \* caller -> its position in an attribute read run in steps

vars == <<objs, forests, nextObj, gets, posts, phase, origin, last, callerSet,
          rsrc, rurl, rres, callers>>

(***************************************************************************)
(* Bounds.                                                                 *)
(***************************************************************************)
MaxSegs == 4
MaxObjs == 1
MaxGets == 2
MaxPosts == 1
MaxWrites == 1

(***************************************************************************)
(* Strings and URLs.  A URL is a sequence of tokens: the delimiters below  *)
(* and words.  urlparse and str.split work on the token sequence.          *)
(***************************************************************************)
SchemeTok == "https:"
SlashesTok == "//"
SlashTok == "/"
QueryTok == "?"

\* Words a path segment or a host can be; the last one is not alphanumeric.
Marker == "comments"
AlnumWords == {"comments", "2gmzqe", "r", "redditdev"}
Words == AlnumWords \cup {"praw_https"}
Hosts == {"redd.it"}

\* str.isalnum on a segment (a sequence of words): non-empty, every character
\* alphanumeric.
IsAlnum(seg) == seg # <<>> /\ \A i \in 1..Len(seg) : seg[i] \in AlnumWords

RECURSIVE SegStr(_)
\* The string a segment denotes: the concatenation of its words.
SegStr(seg) == IF seg = <<>> THEN "" ELSE Head(seg) \o SegStr(Tail(seg))

RECURSIVE TakeUntil(_, _)
\* The longest prefix of toks holding no token of stops.
TakeUntil(toks, stops) ==
    IF toks = <<>> \/ Head(toks) \in stops THEN <<>>
    ELSE <<Head(toks)>> \o TakeUntil(Tail(toks), stops)

Drop(toks, n) == SubSeq(toks, n + 1, Len(toks))

\* urlparse(url): the scheme is stripped, the authority is what follows "//" up
\* to the next "/" or "?", the path is what follows up to "?".
StripScheme(url) ==
    IF url # <<>> /\ Head(url) = SchemeTok THEN Tail(url) ELSE url

HasAuthority(rest) == rest # <<>> /\ Head(rest) = SlashesTok

ParseAuthority(rest) ==
    [netloc |-> TakeUntil(rest, {SlashTok, QueryTok}),
     path |-> TakeUntil(Drop(rest, Len(TakeUntil(rest, {SlashTok, QueryTok}))),
                        {QueryTok})]

ParseRest(rest) ==
    IF HasAuthority(rest) THEN ParseAuthority(Tail(rest))
    ELSE [netloc |-> <<>>, path |-> TakeUntil(rest, {QueryTok})]

urlparse(url) == ParseRest(StripScheme(url))

RECURSIVE Split(_)
\* path.split('/'): the segments between the slashes; never empty.
Split(toks) ==
    IF toks = <<>> THEN << <<>> >>
    ELSE IF Head(toks) = SlashTok THEN << <<>> >> \o Split(Tail(toks))
    ELSE LET r == Split(Tail(toks))
         IN << <<Head(toks)>> \o Head(r) >> \o Tail(r)

\* parts.index(x): the position of the first occurrence of x.
IndexOf(parts, x) ==
    CHOOSE i \in 1..Len(parts) :
        parts[i] = x /\ \A j \in 1..(i - 1) : parts[j] # x

Contains(parts, x) == \E i \in 1..Len(parts) : parts[i] = x

\* The segment after the first marker, as the code selects it (no range check).
AfterMarkerOffByOne(parts) == parts[IndexOf(parts, <<Marker>>)]
AfterMarker(parts) == parts[IndexOf(parts, <<Marker>>) + 1]

\* The check of the candidate: it is returned when it is alphanumeric.
CheckId(submission_id) ==
    IF IsAlnum(submission_id) THEN [out |-> "ok", id |-> SegStr(submission_id)]
    ELSE [out |-> "ClientException", id |-> ""]

\* The choice of the candidate among the segments of the path.
IdFromParts(parts) ==
    IF ~Contains(parts, <<Marker>>) THEN CheckId(parts[Len(parts)])
    ELSE IF IndexOf(parts, <<Marker>>) + 1 > Len(parts)
    THEN [out |-> "IndexError", id |-> ""]
    ELSE CheckId(AfterMarker(parts))

IdFromParsed(parsed) ==
    IF parsed.netloc = <<>> THEN [out |-> "ClientException", id |-> ""]
    ELSE IdFromParts(Split(parsed.path))

\* Submission.id_from_url: [out, id].
id_from_url(url) == IdFromParsed(urlparse(url))

(***************************************************************************)
(* The URLs the resolver is tried on: every rendering of a scheme flag, an *)
(* authority, up to MaxSegs path segments and a query flag, and the URLs   *)
(* of the docstring.                                                       *)
(***************************************************************************)
RECURSIVE RenderPath(_)
RenderPath(segs) ==
    IF segs = <<>> THEN <<>>
    ELSE <<SlashTok>> \o (IF Head(segs) = "" THEN <<>> ELSE <<Head(segs)>>)
         \o RenderPath(Tail(segs))

SegSeqs == UNION {[1..n -> Words \cup {""}] : n \in 0..MaxSegs}

Render(scheme, auth, segs, query) ==
    (IF scheme THEN <<SchemeTok>> ELSE <<>>)
    \o (CASE auth = "none" -> <<>>
          [] auth = "empty" -> <<SlashesTok>>
          [] OTHER -> <<SlashesTok, auth>>)
    \o RenderPath(segs)
    \o (IF query THEN <<QueryTok, "2gmzqe">> ELSE <<>>)

\* The three forms of the docstring of id_from_url: their path segments.
DocShortSegs == <<"2gmzqe">>
DocCommentsSegs == <<"comments", "2gmzqe", "">>
DocFullSegs == <<"r", "redditdev", "comments", "2gmzqe", "praw_https", "">>
DocSegs == {DocShortSegs, DocCommentsSegs, DocFullSegs}
DocUrls == {Render(TRUE, "redd.it", p, FALSE) : p \in DocSegs}

\* What a URL is written from: a scheme flag, an authority ("none": no "//",
\* "empty": "//" and nothing), path segments and a query flag.
UrlSources == [scheme : BOOLEAN, auth : {"none", "empty"} \cup Hosts,
               segs : SegSeqs \cup DocSegs, query : BOOLEAN]

RenderSource(u) == Render(u.scheme, u.auth, u.segs, u.query)

(***************************************************************************)
(* Attribute dictionaries.                                                 *)
(***************************************************************************)
EmptyDict == [n \in {} |-> 0]

Put(d, n, v) == [m \in DOMAIN d \cup {n} |-> IF m = n THEN v ELSE d[m]]

\* dict.update: every key of o is written into d, the other keys of d stay.
Update(d, o) ==
    [m \in DOMAIN d \cup DOMAIN o |-> IF m \in DOMAIN o THEN o[m] ELSE d[m]]

\* A raw author or subreddit value as the server or the caller gives it; conv
\* counts the typed-reference conversions applied to it.
Raw(name) == [name |-> name, conv |-> 0]

\* Redditor.from_data(reddit, value) and Subreddit(reddit, value).
Wrap(value) == [value EXCEPT !.conv = @ + 1]

\* Submission.__setattr__: the value that is stored for (attribute, value).
InterceptNoSubreddit(attribute, value) ==
    IF attribute = "author" THEN Wrap(value) ELSE value
Intercept(attribute, value) ==
    IF attribute = "author" THEN Wrap(value)
    ELSE IF attribute = "subreddit" THEN Wrap(value)
    ELSE value

SetAttr(d, attribute, value) == Put(d, attribute, Intercept(attribute, value))

\* PRAWBase.__init__ and RedditBase.__init__: every field of the raw data is
\* assigned as an attribute, then the object is marked not fetched.  data is
\* <<>> (None) or <<dict>>.
SetAll(raw) == [n \in DOMAIN raw |-> Intercept(n, raw[n])]

BaseInit(data) ==
    Put(SetAll(IF data = <<>> THEN EmptyDict ELSE data[1]), "_fetched", FALSE)

DefaultLimit == 2048
DefaultSort == "best"

\* The argument check of Submission.__init__: [id, url, _data].count(None).
CountNone(id, url, data) ==
    (IF id = <<>> THEN 1 ELSE 0) + (IF url = <<>> THEN 1 ELSE 0)
    + (IF data = <<>> THEN 1 ELSE 0)

ArgsOkOnlyNone(id, url, data) == CountNone(id, url, data) # 3
ArgsOk(id, url, data) == CountNone(id, url, data) = 2

\* self.comment_limit = 2048 and self.comment_sort = 'best'.
WithDefaults(d) ==
    SetAttr(SetAttr(d, "comment_limit", DefaultLimit), "comment_sort",
            DefaultSort)

\* self.flair = SubmissionFlair(self) and self.mod = SubmissionModeration(self).
WithControllers(d, self) ==
    SetAttr(SetAttr(d, "flair", [submission |-> self]), "mod",
            [submission |-> self])

\* The constructor after the defaults: d is the __dict__ so far, res the
\* result of id_from_url when a url was given.
InitFrom(self, id, url, d, res) ==
    IF id # <<>>
    THEN [out |-> "ok", dict |-> WithControllers(SetAttr(d, "id", id[1]), self)]
    ELSE IF url = <<>> THEN [out |-> "ok", dict |-> WithControllers(d, self)]
    ELSE IF res.out = "ok"
    THEN [out |-> "ok", dict |-> WithControllers(SetAttr(d, "id", res.id), self)]
    ELSE [out |-> res.out, dict |-> d]

\* Submission.__init__ of object self; an argument is <<>> (None) or <<v>>.
\* The result is the outcome and the __dict__ as the constructor left it.
SubmissionInit(self, id, url, data) ==
    IF ~ArgsOk(id, url, data)
    THEN [out |-> "TypeError", dict |-> EmptyDict]
    ELSE InitFrom(self, id, url, WithDefaults(BaseInit(data)),
                  IF url # <<>> THEN id_from_url(url[1])
                  ELSE [out |-> "ok", id |-> ""])

(***************************************************************************)
(* The lazy fetch.  A world is the part of the state a fetch works on:     *)
(* [objs, forests, nextObj, gets].  A reply of the transport is            *)
(* [fail, children, comments]: whether Transport.get raised, the raw data  *)
(* of the records in the primary part, the nodes of the secondary part.    *)
(***************************************************************************)
World == [objs |-> objs, forests |-> forests, nextObj |-> nextObj,
          gets |-> gets]

Fetched(W, o) == W.objs[o]["_fetched"]

Has(W, o, name) == name \in DOMAIN W.objs[o]

\* API_PATH['submission'].format(id=self.id) with the params of the request.
RequestHardcoded(d) ==
    [id |-> d["id"], limit |-> DefaultLimit, sort |-> DefaultSort]
Request(d) ==
    [id |-> d["id"], limit |-> d["comment_limit"], sort |-> d["comment_sort"]]

\* self.__dict__.update(other.__dict__) and then self._fetched = True.
MergeFlagFirst(d, other) == Update(Put(d, "_fetched", TRUE), other)
Merge(d, other) == Put(Update(d, other), "_fetched", TRUE)

\* CommentForest(submission): a new, empty forest bound to submission.
NewForest(submission) == [submission |-> submission, nodes |-> {}]

\* CommentForest._update(children): the nodes are integrated into the forest.
ForestUpdate(forest, children) ==
    [forest EXCEPT !.nodes = @ \cup children]

Ext(f, k, v) == [x \in DOMAIN f \cup {k} |-> IF x = k THEN v ELSE f[x]]

\* The record the transport's parser builds from raw data, as object rid, with
\* other.comments = CommentForest(self) assigned: the forest is object tid.
Record(rid, tid, data) ==
    SetAttr(SubmissionInit(rid, <<>>, <<>>, <<data>>).dict, "comments", tid)

\* self.comments._update(comments.children) on the forest self.comments names.
UpdateComments(frs, target, children) ==
    [frs EXCEPT ![target] = ForestUpdate(@, children)]

\* Lines 84 to 88 of _fetch: other is the record (object rid), tid its new
\* forest.
FetchMerge(W, o, reply, rid, tid, other) ==
    [objs |-> [Ext(W.objs, rid, other) EXCEPT ![o] = Merge(W.objs[o], other)],
     forests |-> UpdateComments(Ext(W.forests, tid, NewForest(o)),
                                Merge(W.objs[o], other)["comments"],
                                reply.comments),
     nextObj |-> W.nextObj + 2,
     gets |-> W.gets]

\* _fetch once the request has been sent: W holds the request.
FetchReplyRetried(W, o, reply) ==
    IF reply.fail
    THEN [out |-> "TransportError",
          W |-> [W EXCEPT !.gets = Append(@, Request(W.objs[o]))]]
    ELSE IF reply.children = <<>> THEN [out |-> "IndexError", W |-> W]
    ELSE [out |-> "ok",
          W |-> FetchMerge(W, o, reply, W.nextObj, W.nextObj + 1,
                           Record(W.nextObj, W.nextObj + 1, reply.children[1]))]
FetchReply(W, o, reply) ==
    IF reply.fail THEN [out |-> "TransportError", W |-> W]
    ELSE IF reply.children = <<>> THEN [out |-> "IndexError", W |-> W]
    ELSE [out |-> "ok",
          W |-> FetchMerge(W, o, reply, W.nextObj, W.nextObj + 1,
                           Record(W.nextObj, W.nextObj + 1, reply.children[1]))]

\* Submission._fetch of object o, given the reply the transport gives: the
\* outcome and the world it leaves.  Reading self.id on an object that has no
\* id and is not fetched re-enters _fetch without end.
Fetch(W, o, reply) ==
    IF ~Has(W, o, "id") THEN [out |-> "RecursionError", W |-> W]
    ELSE FetchReply([W EXCEPT !.gets = Append(@, Request(W.objs[o]))], o, reply)

\* The retry of the read after the fetch f.
AfterFetch(f, o, name) ==
    IF f.out # "ok" THEN [out |-> f.out, fetch |-> f.out, W |-> f.W]
    ELSE IF Has(f.W, o, name) THEN [out |-> "value", fetch |-> "ok", W |-> f.W]
    ELSE [out |-> "AttributeError", fetch |-> "ok", W |-> f.W]

\* RedditBase.__getattr__ behind an attribute read of object o: the outcome
\* of the read, the outcome of the fetch it ran ("none" when it ran none) and
\* the world it leaves.
LazyRead(W, o, name, reply) ==
    IF Has(W, o, name) THEN [out |-> "value", fetch |-> "none", W |-> W]
    ELSE IF Fetched(W, o)
    THEN [out |-> "AttributeError", fetch |-> "none", W |-> W]
    ELSE AfterFetch(Fetch(W, o, reply), o, name)

\* Whether a read of name on object o calls Transport.get.
WillGet(W, o, name) == ~Has(W, o, name) /\ ~Fetched(W, o) /\ Has(W, o, "id")

\* RedditBase.fullname: the type prefix and the identifier.
Fullname(id) == "t3_" \o id

(***************************************************************************)
(* The inputs.                                                             *)
(***************************************************************************)
Opt(S) == {<<>>} \cup {<<v>> : v \in S}

Ids == {"2gmzqe", "zzz"}
IdArgs == Opt({"", "2gmzqe"})

NoAuthority == <<"redd.it", SlashTok, "2gmzqe">>
MarkerLast == <<SchemeTok, SlashesTok, "redd.it", SlashTok, "comments">>
CtorUrls == DocUrls \cup {<<>>, NoAuthority, MarkerLast}
UrlArgs == Opt(CtorUrls)

\* The raw data of a record: each field absent (<<>>) or present (<<v>>).
DataFields == {"id", "author", "subreddit", "comment_sort"}
DataChoices == [id : Opt(Ids), author : Opt({Raw("bob")}),
                subreddit : Opt({Raw("redditdev")}),
                comment_sort : Opt({"top"})]
MkData(c) == [f \in {g \in DataFields : c[g] # <<>>} |-> c[f][1]]

DataDicts == {MkData(c) : c \in DataChoices}

\* The raw data the entity itself is constructed from.
CtorData == {d \in DataDicts : "subreddit" \notin DOMAIN d
                                /\ ("id" \in DOMAIN d => d["id"] = "2gmzqe")}

NodeSets == {{"c1"}}

\* What Transport.get can answer: a failure, or a primary part of zero, one or
\* two records with a secondary part.  The replies of two records are those
\* whose first record carries at most an identifier.
FailReply == [fail |-> TRUE, children |-> <<>>, comments |-> {}]
PairHeads == {d \in DataDicts : DOMAIN d \subseteq {"id"}}
Kids == {<<>>} \cup {<<d>> : d \in DataDicts} \cup {<<d, d>> : d \in PairHeads}
Replies ==
    {FailReply}
    \cup {[fail |-> FALSE, children |-> k, comments |-> ns] :
             k \in Kids, ns \in NodeSets}

\* The values the caller assigns to the two configuration attributes.
CallerLimits == {5}
CallerSorts == {"new"}

ReadNames == {"id", "comments", "note"}

(***************************************************************************)
(* The state after nothing has been constructed.                           *)
(***************************************************************************)
\* The parameters of the controllers' operations at their defaults: state
\* and bottom of contest_mode and sticky, sort of suggested_sort.
NoArgs == [state |-> TRUE, bottom |-> TRUE, sort |-> "blank"]

\* last: the operation, the attribute it named, its outcome, the outcome of
\* the fetch it ran, the fields and the number of records of the primary part
\* of the reply that fetch merged, and the operation's parameters.
NoOp == [op |-> "none", name |-> "", out |-> "", fetch |-> "none",
         fields |-> {}, kids |-> 0, args |-> NoArgs]

NoOrigin ==
    [id |-> FALSE, url |-> FALSE, data |-> FALSE, idNE |-> FALSE,
     urlNE |-> FALSE, dataNE |-> FALSE, urlArg |-> <<>>, dataArg |-> <<>>,
     out |-> "none", ident |-> ""]

Init ==
    /\ objs = EmptyDict
    /\ forests = EmptyDict
    /\ nextObj = 1
    /\ gets = <<>>
    /\ posts = <<>>
    /\ phase = "new"
    /\ origin = NoOrigin
    /\ last = NoOp
    /\ callerSet = {}
    /\ rsrc = [scheme |-> FALSE, auth |-> "none", segs |-> <<>>,
               query |-> FALSE]
    /\ rurl = <<>>
    /\ rres = [out |-> "none", id |-> ""]
    /\ callers = <<>>

Install(W) ==
    /\ objs' = W.objs
    /\ forests' = W.forests
    /\ nextObj' = W.nextObj
    /\ gets' = W.gets

\* What the constructor was given (supplied: not None; NE: supplied and not
\* empty), how it ended and the identifier it set.
Origin(id, url, data, r) ==
    [id |-> id # <<>>, url |-> url # <<>>, data |-> data # <<>>,
     idNE |-> id # <<>> /\ id # <<"">>,
     urlNE |-> url # <<>> /\ url # << <<>> >>,
     dataNE |-> data # <<>> /\ data # <<EmptyDict>>,
     urlArg |-> url,
     dataArg |-> data,
     out |-> r.out,
     ident |-> IF r.out = "ok" /\ "id" \in DOMAIN r.dict THEN r.dict["id"]
               ELSE ""]

Constructed(id, url, data, r) ==
    /\ phase' = IF r.out = "ok" THEN "live" ELSE "failed"
    /\ objs' = IF r.out = "TypeError" THEN objs ELSE Ext(objs, 0, r.dict)
    /\ origin' = Origin(id, url, data, r)
    /\ last' = [NoOp EXCEPT !.op = "init", !.out = r.out]

\* Submission(reddit, id, url, _data): the constructor of the entity, object 0.
Construct ==
    /\ phase = "new"
    /\ \E id \in IdArgs, url \in UrlArgs, data \in Opt(CtorData) :
           Constructed(id, url, data, SubmissionInit(0, id, url, data))
    /\ UNCHANGED <<forests, nextObj, gets, posts, callerSet, rsrc, rurl, rres,
                   callers>>

ReplyFields(r, reply) == IF r.fetch = "ok" THEN DOMAIN reply.children[1] ELSE {}

\* The number of records in the primary part of the reply a fetch merged.
ReplyKids(r, reply) == IF r.fetch = "ok" THEN Len(reply.children) ELSE 0

ReadDone(name, reply, r) ==
    /\ Len(r.W.gets) <= MaxGets
    /\ Install(r.W)
    /\ last' = [op |-> "read", name |-> name, out |-> r.out, fetch |-> r.fetch,
                fields |-> ReplyFields(r, reply),
                kids |-> ReplyKids(r, reply), args |-> NoArgs]

RepliesFor(asks) == IF asks THEN Replies ELSE {FailReply}

\* An attribute read of the entity by the caller: getattr(submission, name).
Read(name) ==
    /\ phase = "live"
    /\ \E reply \in RepliesFor(WillGet(World, 0, name)) :
           ReadDone(name, reply, LazyRead(World, 0, name, reply))
    /\ UNCHANGED <<posts, phase, origin, callerSet, rsrc, rurl, rres, callers>>

\* An attribute write of the entity by the caller: setattr(submission, name, v).
Write(name, value) ==
    /\ phase = "live"
    /\ Cardinality(callerSet \cup {name}) <= MaxWrites
    /\ objs' = [objs EXCEPT ![0] = SetAttr(@, name, value)]
    /\ callerSet' = callerSet \cup {name}
    /\ last' = [NoOp EXCEPT !.op = "write", !.name = name, !.out = "ok"]
    /\ UNCHANGED <<forests, nextObj, gets, posts, phase, origin, rsrc, rurl,
                   rres, callers>>

\* submission.comments = CommentForest(submission), with a reply the caller
\* added to it.
WriteComments ==
    /\ phase = "live"
    /\ Cardinality(callerSet \cup {"comments"}) <= MaxWrites
    /\ nextObj <= MaxObjs
    /\ forests' = Ext(forests, nextObj, [NewForest(0) EXCEPT !.nodes = {"c0"}])
    /\ objs' = [objs EXCEPT ![0] = SetAttr(@, "comments", nextObj)]
    /\ nextObj' = nextObj + 1
    /\ callerSet' = callerSet \cup {"comments"}
    /\ last' = [NoOp EXCEPT !.op = "write", !.name = "comments", !.out = "ok"]
    /\ UNCHANGED <<gets, posts, phase, origin, rsrc, rurl, rres, callers>>

(***************************************************************************)
(* The controllers.  A post is [path, data]: the path of the request and   *)
(* its data, a function from the keys to the values.                       *)
(***************************************************************************)
\* self.submission of the controllers the entity's flair and mod name.
FlairTarget == objs[0]["flair"].submission
ModTarget == objs[0]["mod"].submission

\* self.submission.fullname once the read of self.submission.id returned.
FullnameOf(W, t) == IF Has(W, t, "id") THEN Fullname(W.objs[t]["id"]) ELSE ""

\* data={'link': fullname}, data={'id': fullname} and the data with the
\* operation's parameter.
LinkData(fullname) == Put(EmptyDict, "link", fullname)
IdData(fullname) == Put(EmptyDict, "id", fullname)
StateData(fullname, state) == Put(IdData(fullname), "state", state)
SortData(fullname, sort) == Put(IdData(fullname), "sort", sort)

\* The data of sticky: data['num'] = 1 is added if not bottom.
StickyDataNumIfBottom(fullname, state, bottom) ==
    IF bottom THEN Put(StateData(fullname, state), "num", 1)
    ELSE StateData(fullname, state)
StickyData(fullname, state, bottom) ==
    IF ~bottom THEN Put(StateData(fullname, state), "num", 1)
    ELSE StateData(fullname, state)

\* The end of an operation of a controller whose attribute reads ended as r:
\* the post is sent when the reads returned their values.
Posted(op, args, reply, r, path, data) ==
    /\ Len(r.W.gets) <= MaxGets
    /\ Install(r.W)
    /\ posts' = IF r.out = "value"
                THEN Append(posts, [path |-> path, data |-> data])
                ELSE posts
    /\ last' = [op |-> op, name |-> "", out |-> r.out, fetch |-> r.fetch,
                fields |-> ReplyFields(r, reply),
                kids |-> ReplyKids(r, reply), args |-> args]

\* The two attribute reads of choices: r is the read of
\* self.submission.subreddit, and self.submission.fullname follows it.
FlairReads(r, t) ==
    IF r.out # "value" THEN r
    ELSE [out |-> LazyRead(r.W, t, "id", FailReply).out, fetch |-> r.fetch,
          W |-> r.W]

\* API_PATH['flairselector'].format(subreddit=str(self.submission.subreddit))
FlairPath(W, t) ==
    IF Has(W, t, "subreddit")
    THEN "flairselector/" \o W.objs[t]["subreddit"].name
    ELSE ""

FlairDone(t, reply, r) ==
    Posted("choices", NoArgs, reply, r, FlairPath(r.W, t),
           LinkData(FullnameOf(r.W, t)))

\* submission.flair.choices()
FlairChoices ==
    /\ phase = "live"
    /\ Len(posts) < MaxPosts
    /\ \E reply \in RepliesFor(WillGet(World, FlairTarget, "subreddit")) :
           FlairDone(FlairTarget, reply,
                     FlairReads(LazyRead(World, FlairTarget, "subreddit",
                                         reply),
                                FlairTarget))
    /\ UNCHANGED <<phase, origin, callerSet, rsrc, rurl, rres, callers>>

\* An operation of the moderation controller: self.submission.fullname is
\* read, which reads self.submission.id, and the post is sent.
ModPost(op, args, path, data) ==
    /\ phase = "live"
    /\ Len(posts) < MaxPosts
    /\ Posted(op, args, FailReply, LazyRead(World, ModTarget, "id", FailReply),
              path, data)
    /\ UNCHANGED <<phase, origin, callerSet, rsrc, rurl, rres, callers>>

\* submission.mod.contest_mode(state)
ModContestMode(state) ==
    ModPost("contest_mode", [NoArgs EXCEPT !.state = state], "contest_mode",
            StateData(FullnameOf(World, ModTarget), state))

\* submission.mod.nsfw()
ModNsfw ==
    ModPost("nsfw", NoArgs, "marknsfw", IdData(FullnameOf(World, ModTarget)))

\* submission.mod.sfw()
ModSfw ==
    ModPost("sfw", NoArgs, "unmarknsfw", IdData(FullnameOf(World, ModTarget)))

\* submission.mod.sticky(state, bottom)
ModSticky(state, bottom) ==
    ModPost("sticky", [NoArgs EXCEPT !.state = state, !.bottom = bottom],
            "sticky_submission",
            StickyData(FullnameOf(World, ModTarget), state, bottom))

\* submission.mod.suggested_sort(sort)
ModSuggestedSort(sort) ==
    ModPost("suggested_sort", [NoArgs EXCEPT !.sort = sort], "suggested_sort",
            SortData(FullnameOf(World, ModTarget), sort))

\* The values the caller passes as sort.
SortArgs == {"blank", "top"}

Next ==
    \/ Construct
    \/ \E name \in ReadNames : Read(name)
    \/ \E v \in CallerLimits : Write("comment_limit", v)
    \/ \E v \in CallerSorts : Write("comment_sort", v)
    \/ Write("author", Raw("bob"))
    \/ Write("note", "mine")
    \/ WriteComments
    \/ ModNsfw

Spec == Init /\ [][Next]_vars

(***************************************************************************)
(* The controllers' operations, between construction and the reads of the  *)
(* caller.                                                                 *)
(***************************************************************************)
\* The attribute the caller reads between the operations: one the reply
\* never defines, so that its first read fetches the entity.
CtlReadNames == {"note"}

NextCtl ==
    \/ Construct
    \/ \E name \in CtlReadNames : Read(name)
    \/ FlairChoices
    \/ \E state \in BOOLEAN : ModContestMode(state)
    \/ ModNsfw
    \/ ModSfw
    \/ \E state \in BOOLEAN, bottom \in BOOLEAN : ModSticky(state, bottom)
    \/ \E sort \in SortArgs : ModSuggestedSort(sort)

SpecCtl == Init /\ [][NextCtl]_vars

(***************************************************************************)
(* id_from_url on its own: the URL is any of the URLs written from         *)
(* UrlSources, and the one step applies the resolver to it.                *)
(***************************************************************************)
InitResolve ==
    /\ objs = EmptyDict
    /\ forests = EmptyDict
    /\ nextObj = 1
    /\ gets = <<>>
    /\ posts = <<>>
    /\ phase = "new"
    /\ origin = NoOrigin
    /\ last = NoOp
    /\ callerSet = {}
    /\ rsrc \in UrlSources
    /\ rurl = RenderSource(rsrc)
    /\ rres = [out |-> "pending", id |-> ""]
    /\ callers = <<>>

Resolve ==
    /\ rres.out = "pending"
    /\ rres' = id_from_url(rurl)
    /\ UNCHANGED <<objs, forests, nextObj, gets, posts, phase, origin, last,
                   callerSet, rsrc, rurl, callers>>

NextResolve == Resolve

SpecResolve == InitResolve /\ [][NextResolve]_vars

(***************************************************************************)
(* The attribute read in steps.  Each caller reads one attribute of the    *)
(* entity; between the steps of a read (the test of __getattr__, the       *)
(* request of _fetch, the reply and the merge of lines 84 to 86, the       *)
(* update of line 87, the flag of line 88, the retry of the read) the      *)
(* steps of the other callers run.  A caller is [pc, name, out, nodes]:    *)
(* its position, the attribute it reads, the outcome of its read and the   *)
(* secondary part of the reply its fetch received.                         *)
(***************************************************************************)
MaxCallers == 2

Idle == [pc |-> "idle", name |-> "", out |-> "", nodes |-> {}]

StepNames == {"comments", "note"}

\* self.__dict__.update(other.__dict__) alone: line 86.
MergeRecordFlagged(d, other) == Put(Update(d, other), "_fetched", TRUE)
MergeRecord(d, other) == Update(d, other)

Built(id, url, data, r) ==
    /\ objs = Ext(EmptyDict, 0, r.dict)
    /\ origin = Origin(id, url, data, r)

\* The entity is constructed from an identifier or from raw data, and n
\* callers are about to read it.
InitSteps(n) ==
    /\ \/ Built(<<"2gmzqe">>, <<>>, <<>>,
                SubmissionInit(0, <<"2gmzqe">>, <<>>, <<>>))
       \/ \E d \in CtorData :
              Built(<<>>, <<>>, <<d>>, SubmissionInit(0, <<>>, <<>>, <<d>>))
    /\ forests = EmptyDict
    /\ nextObj = 1
    /\ gets = <<>>
    /\ posts = <<>>
    /\ phase = "live"
    /\ last = [NoOp EXCEPT !.op = "init", !.out = "ok"]
    /\ callerSet = {}
    /\ rsrc = [scheme |-> FALSE, auth |-> "none", segs |-> <<>>,
               query |-> FALSE]
    /\ rurl = <<>>
    /\ rres = [out |-> "none", id |-> ""]
    /\ callers = [c \in 1..n |-> Idle]

\* The caller's read has ended.
Done(c, out) == callers' = [callers EXCEPT ![c].pc = "done", ![c].out = out]

Goes(c, pc) == callers' = [callers EXCEPT ![c].pc = pc]

\* getattr(submission, name): the attribute is found, or __getattr__ tests
\* _fetched and calls _fetch.
Check(c, name) ==
    /\ callers[c].pc = "idle"
    /\ callers' = [callers EXCEPT ![c] =
           IF Has(World, 0, name)
           THEN [Idle EXCEPT !.pc = "done", !.name = name, !.out = "value"]
           ELSE IF Fetched(World, 0)
           THEN [Idle EXCEPT !.pc = "done", !.name = name,
                             !.out = "AttributeError"]
           ELSE [Idle EXCEPT !.pc = "fetch", !.name = name]]
    /\ UNCHANGED <<objs, forests, nextObj, gets, posts, phase, origin, last,
                   callerSet, rsrc, rurl, rres>>

\* Lines 81 to 83: the path and the params are read and the request is sent.
Send(c) ==
    /\ callers[c].pc = "fetch"
    /\ IF Has(World, 0, "id")
       THEN gets' = Append(gets, Request(objs[0])) /\ Goes(c, "sent")
       ELSE gets' = gets /\ Done(c, "RecursionError")
    /\ UNCHANGED <<objs, forests, nextObj, posts, phase, origin, last,
                   callerSet, rsrc, rurl, rres>>

\* Lines 84 to 86 on the reply: other is the record the reply holds first.
Merged(c, reply, other) ==
    /\ objs' = [Ext(objs, nextObj, other) EXCEPT
                   ![0] = MergeRecord(objs[0], other)]
    /\ forests' = Ext(forests, nextObj + 1, NewForest(0))
    /\ nextObj' = nextObj + 2
    /\ callers' = [callers EXCEPT ![c].pc = "merged",
                                  ![c].nodes = reply.comments]

Received(c, reply) ==
    IF reply.fail
    THEN Done(c, "TransportError") /\ UNCHANGED <<objs, forests, nextObj>>
    ELSE IF reply.children = <<>>
    THEN Done(c, "IndexError") /\ UNCHANGED <<objs, forests, nextObj>>
    ELSE Merged(c, reply, Record(nextObj, nextObj + 1, reply.children[1]))

\* Transport.get returns, or raises.
Receive(c) ==
    /\ callers[c].pc = "sent"
    /\ \E reply \in Replies : Received(c, reply)
    /\ UNCHANGED <<gets, posts, phase, origin, last, callerSet, rsrc, rurl,
                   rres>>

\* Line 87: self.comments._update(comments.children).
Integrate(c) ==
    /\ callers[c].pc = "merged"
    /\ forests' = UpdateComments(forests, objs[0]["comments"],
                                 callers[c].nodes)
    /\ Goes(c, "updated")
    /\ UNCHANGED <<objs, nextObj, gets, posts, phase, origin, last, callerSet,
                   rsrc, rurl, rres>>

\* Line 88: self._fetched = True.
Flag(c) ==
    /\ callers[c].pc = "updated"
    /\ objs' = [objs EXCEPT ![0] = Put(@, "_fetched", TRUE)]
    /\ Goes(c, "flagged")
    /\ UNCHANGED <<forests, nextObj, gets, posts, phase, origin, last,
                   callerSet, rsrc, rurl, rres>>

\* The read is retried after the fetch.
Retry(c) ==
    /\ callers[c].pc = "flagged"
    /\ Done(c, IF Has(World, 0, callers[c].name) THEN "value"
               ELSE "AttributeError")
    /\ UNCHANGED <<objs, forests, nextObj, gets, posts, phase, origin, last,
                   callerSet, rsrc, rurl, rres>>

NextSteps ==
    \/ \E c \in DOMAIN callers, name \in StepNames : Check(c, name)
    \/ \E c \in DOMAIN callers : Send(c)
    \/ \E c \in DOMAIN callers : Receive(c)
    \/ \E c \in DOMAIN callers : Integrate(c)
    \/ \E c \in DOMAIN callers : Flag(c)
    \/ \E c \in DOMAIN callers : Retry(c)

\* One caller.
InitOne == InitSteps(1)
SpecSteps == InitOne /\ [][NextSteps]_vars

\* Concurrent callers.
InitConc == InitSteps(MaxCallers)
SpecConc == InitConc /\ [][NextSteps]_vars

fetchedFlag == phase = "live" /\ objs[0]["_fetched"]

(***************************************************************************)
(* Properties.                                                             *)
(***************************************************************************)
\* A step of the entity's attribute-read path.
ReadStep == last'.op = "read" /\ vars' # vars

\* The steps of a fetch of the entity that ran to its end.
FetchOkStep == ReadStep /\ last'.fetch = "ok"

\* C1: fetchedFlag is false when construction finishes, it becomes true
\* only in a step in which a fetch sent its request and completed, a completed
\* fetch leaves it true, and once true it stays true and an attribute read
\* of the entity sends no further request.  The same holds of every record.
C1_FetchedOnce ==
    [][/\ \A o \in DOMAIN objs' \ DOMAIN objs : ~objs'[o]["_fetched"]
       /\ \A o \in DOMAIN objs :
            /\ o \in DOMAIN objs'
            /\ objs[o]["_fetched"] => objs'[o]["_fetched"]
            /\ ~objs[o]["_fetched"] /\ objs'[o]["_fetched"]
                 => last'.fetch = "ok" /\ Len(gets') = Len(gets) + 1
       /\ FetchOkStep => objs'[0]["_fetched"]
       /\ (phase = "live" /\ objs[0]["_fetched"] /\ ReadStep) => gets' = gets
      ]_vars

\* C1 witness: the entity is fetched after one request, and a later read of
\* an attribute that is still absent failed without a fetch.
C1_Witness ==
    /\ fetchedFlag
    /\ Len(gets) = 1
    /\ last.op = "read" /\ last.fetch = "none" /\ last.out = "AttributeError"

\* C2: a read of a present attribute returns it and sends no request; a
\* read of an absent attribute of an unfetched entity sends exactly one
\* request and, when the fetch completes, ends with the value or with
\* AttributeError as the attribute is then present or not; a read of an absent
\* attribute of a fetched entity fails with AttributeError and sends nothing.
C2_ReadContract ==
    [][ReadStep =>
         /\ last'.name \in DOMAIN objs[0]
              => last'.out = "value" /\ gets' = gets
         /\ last'.name \notin DOMAIN objs[0] /\ ~objs[0]["_fetched"]
              => /\ Len(gets') = Len(gets) + 1
                 /\ last'.fetch = "ok" =>
                      last'.out = IF last'.name \in DOMAIN objs'[0]
                                  THEN "value" ELSE "AttributeError"
         /\ last'.name \notin DOMAIN objs[0] /\ objs[0]["_fetched"]
              => last'.out = "AttributeError" /\ gets' = gets
      ]_vars

\* C3: an attribute the caller assigned before the fetch and the reply's
\* record does not define is present after the fetch with the caller's value.
C3_CallerAttributesSurvive ==
    [][FetchOkStep =>
         \A n \in callerSet \ last'.fields :
             n \in DOMAIN objs'[0] /\ objs'[0][n] = objs[0][n]
      ]_vars

\* C4: the request of a fetch of the entity carries the entity's comment
\* limit and comment sort as they are when the fetch runs: the value the caller
\* assigned when it assigned one, the defaults 2048 and 'best' otherwise.
C4_RequestParams ==
    [][(ReadStep /\ Len(gets') = Len(gets) + 1) =>
         /\ gets'[Len(gets')].limit = objs[0]["comment_limit"]
         /\ gets'[Len(gets')].sort = objs[0]["comment_sort"]
         /\ gets'[Len(gets')].limit \in
              IF "comment_limit" \in callerSet THEN CallerLimits
              ELSE {DefaultLimit}
         /\ gets'[Len(gets')].sort \in
              IF "comment_sort" \in callerSet THEN CallerSorts
              ELSE {DefaultSort}
      ]_vars

\* C4 witness: a request was sent with the limit the caller assigned.
C4_Witness ==
    /\ "comment_limit" \in callerSet
    /\ gets # <<>>
    /\ gets[1].limit \in CallerLimits /\ gets[1].sort = DefaultSort

C6_ForestKept ==
    [][(FetchOkStep /\ "comments" \in DOMAIN objs[0]) =>
         objs'[0]["comments"] = objs[0]["comments"]
      ]_vars

\* The number of constructor arguments that satisfy a flag.
Count3(a, b, c) ==
    (IF a THEN 1 ELSE 0) + (IF b THEN 1 ELSE 0) + (IF c THEN 1 ELSE 0)

\* C7 as stated: construction succeeds exactly when one of the three
\* arguments is supplied non-empty, and fails otherwise with TypeError before
\* any state is set and without a transport call.
C7_ExactlyOneNonEmpty ==
    phase # "new" =>
        /\ phase = "live" <=>
             Count3(origin.idNE, origin.urlNE, origin.dataNE) = 1
        /\ Count3(origin.idNE, origin.urlNE, origin.dataNE) # 1
             => origin.out = "TypeError" /\ objs = EmptyDict /\ gets = <<>>

\* C7 amended: the argument check fails, with TypeError, before any state
\* is set and without a transport call, exactly when the number of supplied
\* (not None) arguments is not one; past the check, construction succeeds
\* unless a url was supplied that id_from_url rejects, whose error is then
\* the outcome; construction calls the transport in no case.
C7_ExactlyOneSupplied ==
    phase # "new" =>
        /\ origin.out = "TypeError" <=>
             Count3(origin.id, origin.url, origin.data) # 1
        /\ origin.out = "TypeError" => objs = EmptyDict
        /\ last.op = "init" => gets = <<>> /\ posts = <<>>
        /\ phase = "live" <=> origin.out = "ok"
        /\ (origin.out # "TypeError" /\ ~origin.url) => origin.out = "ok"
        /\ (origin.out # "TypeError" /\ origin.url)
             => origin.out = id_from_url(origin.urlArg[1]).out

\* C7 witness: construction with both an identifier and a url failed.
C7_Witness ==
    /\ phase = "failed" /\ origin.out = "TypeError"
    /\ origin.idNE /\ origin.urlNE /\ ~origin.data

\* C8: the identifier of an entity constructed from an identifier or a url
\* is the one construction set, whatever was read, fetched or posted since.
C8_IdentifierImmutable ==
    (phase = "live" /\ (origin.id \/ origin.url)) =>
        "id" \in DOMAIN objs[0] /\ objs[0]["id"] = origin.ident

(***************************************************************************)
(* Properties of id_from_url, stated on the segments the URL was written   *)
(* from.                                                                   *)
(***************************************************************************)
HasMarker(segs) == \E i \in 1..Len(segs) : segs[i] = Marker

FirstMarker(segs) ==
    CHOOSE i \in 1..Len(segs) :
        segs[i] = Marker /\ \A j \in 1..(i - 1) : segs[j] # Marker

\* The segment the claim names: the one after the first marker, or the last.
\* "" when there is no such segment.
Candidate(segs) ==
    IF HasMarker(segs)
    THEN IF FirstMarker(segs) < Len(segs) THEN segs[FirstMarker(segs) + 1]
         ELSE ""
    ELSE IF segs = <<>> THEN "" ELSE segs[Len(segs)]

\* C9: for a URL with an authority, the identifier id_from_url returns is
\* the segment after the 'comments' marker when the marker is among the
\* segments and the last segment otherwise, and it is returned whenever it
\* is alphanumeric; the three forms of the docstring give the same identifier.
C9_SegmentChoice ==
    (rres.out # "pending" /\ rsrc.auth \in Hosts) =>
        /\ rres.out = "ok" => rres.id = Candidate(rsrc.segs)
        /\ Candidate(rsrc.segs) \in AlnumWords
             => rres.out = "ok" /\ rres.id = Candidate(rsrc.segs)
        /\ rsrc.segs \in DocSegs => rres.out = "ok" /\ rres.id = "2gmzqe"

\* C9 witness: the full form of the docstring was resolved.
C9_Witness ==
    /\ rsrc.auth \in Hosts /\ rsrc.segs = DocFullSegs
    /\ rres.out = "ok" /\ rres.id = "2gmzqe"

\* C10: id_from_url returns a non-empty alphanumeric token or fails with
\* ClientException; it fails so whenever the URL has no authority or the
\* candidate is not alphanumeric, and no other error escapes.
C10_TwoOutcomes ==
    rres.out # "pending" =>
        /\ rres.out \in {"ok", "ClientException"}
        /\ rres.out = "ok" => rres.id \in AlnumWords
        /\ (rsrc.auth \notin Hosts \/ Candidate(rsrc.segs) \notin AlnumWords)
             => rres.out = "ClientException"

(***************************************************************************)
(* Properties of the controllers.                                          *)
(***************************************************************************)
CtlOps == {"choices", "contest_mode", "nsfw", "sfw", "sticky",
           "suggested_sort"}

\* A step of an operation of the flair or the moderation controller.
CtlStep == last'.op \in CtlOps /\ vars' # vars

\* The parameters an operation puts in its data beside the target.
OwnKeys(op) ==
    IF op \in {"contest_mode", "sticky"} THEN {"state"}
    ELSE IF op = "suggested_sort" THEN {"sort"}
    ELSE {}

\* The key under which an operation names its target.
TargetKey(op) == IF op = "choices" THEN "link" ELSE "id"

\* C11: an operation of a controller of an entity that is not fetched sends
\* no Transport.get and leaves fetchedFlag false.
C11_NoFetchByController ==
    [][(CtlStep /\ ~objs[0]["_fetched"]) =>
         gets' = gets /\ ~objs'[0]["_fetched"]
      ]_vars

\* C12: every operation of a controller sends exactly one post, whose data
\* names the target by the fullname of the entity and holds, beside it, only
\* the parameters of that operation with the values passed.
C12_OnePostByFullname ==
    [][CtlStep =>
         /\ Len(posts') = Len(posts) + 1
         /\ "id" \in DOMAIN objs'[0]
         /\ TargetKey(last'.op) \in DOMAIN posts'[Len(posts')].data
         /\ posts'[Len(posts')].data[TargetKey(last'.op)]
              = Fullname(objs'[0]["id"])
         /\ DOMAIN posts'[Len(posts')].data \ {"num"}
              = {TargetKey(last'.op)} \cup OwnKeys(last'.op)
         /\ \A k \in OwnKeys(last'.op) :
              posts'[Len(posts')].data[k] = last'.args[k]
      ]_vars

\* C13: for every state, the data of the post of sticky holds the marker
\* 'num', with the value 1, exactly when bottom is false; when bottom is true
\* the data holds the fullname and the state and nothing else.
C13_StickyMarker ==
    [][(CtlStep /\ last'.op = "sticky" /\ Len(posts') = Len(posts) + 1) =>
         /\ "num" \in DOMAIN posts'[Len(posts')].data <=> ~last'.args.bottom
         /\ "num" \in DOMAIN posts'[Len(posts')].data
              => posts'[Len(posts')].data["num"] = 1
         /\ DOMAIN posts'[Len(posts')].data \ {"num"} = {"id", "state"}
         /\ posts'[Len(posts')].data["state"] = last'.args.state
         /\ posts'[Len(posts')].data["id"] = FullnameOf(World, ModTarget)
      ]_vars

\* C13 witness: sticky(state=False, bottom=False) sent its post with the
\* marker, on an entity that has an identifier.
C13_Witness ==
    /\ last.op = "sticky" /\ last.out = "value"
    /\ ~last.args.bottom /\ ~last.args.state
    /\ Len(posts) = 1
    /\ "num" \in DOMAIN posts[1].data

(***************************************************************************)
(* Properties of the failures of a fetch, of the constructor's order and   *)
(* of the controllers' identity.                                           *)
(***************************************************************************)
\* A step in which a request was sent and the transport replied.
RepliedStep ==
    /\ Len(gets') = Len(gets) + 1
    /\ last'.fetch \in {"ok", "IndexError"}

\* C14: a fetch whose reply does not hold exactly one record in its primary
\* part fails: a fetch that ran to its end merged a reply of exactly one
\* record, and a fetch that failed on the reply's records changed no object
\* and no forest and left the error with the caller.
C14_OneRecordOrFail ==
    [][RepliedStep =>
         /\ last'.fetch = "ok" => last'.kids = 1
         /\ last'.fetch = "IndexError" =>
              /\ objs' = objs /\ forests' = forests
              /\ last'.out = "IndexError"
      ]_vars

\* C15: a read whose Transport.get failed ends with that failure, has sent
\* exactly one request, leaves every object and forest as it was and
\* fetchedFlag false; the next read of the same attribute sends a request
\* again.
C15_TransportFailure ==
    [][/\ (ReadStep /\ last'.fetch = "TransportError") =>
            /\ last'.out = "TransportError"
            /\ Len(gets') = Len(gets) + 1
            /\ objs' = objs /\ forests' = forests /\ nextObj' = nextObj
            /\ ~objs'[0]["_fetched"]
       /\ (ReadStep /\ last.op = "read" /\ last.fetch = "TransportError"
                    /\ last'.name = last.name) =>
            Len(gets') = Len(gets) + 1
      ]_vars

\* C15 witness: a read failed with the transport's failure when an earlier
\* fetch had failed too: the second read attempted the fetch again.
C15_Witness ==
    /\ phase = "live" /\ ~objs[0]["_fetched"]
    /\ last.op = "read" /\ last.fetch = "TransportError"
    /\ Len(gets) = 2 /\ nextObj = 1

\* C16: when construction ends, the entity has a comment limit and a comment
\* sort and no request has been sent; a value the raw data carries for one of
\* them is the value the entity holds, and the default is held otherwise.
C16_DefaultsFirst ==
    (phase = "live" /\ last.op = "init") =>
        /\ gets = <<>> /\ ~objs[0]["_fetched"]
        /\ {"comment_limit", "comment_sort"} \subseteq DOMAIN objs[0]
        /\ objs[0]["comment_limit"] = DefaultLimit
        /\ objs[0]["comment_sort"] =
             IF origin.data /\ "comment_sort" \in DOMAIN origin.dataArg[1]
             THEN origin.dataArg[1]["comment_sort"]
             ELSE DefaultSort

\* C17: in every state the entity's flair and mod are controllers whose
\* submission is the entity itself.
C17_ControllersBound ==
    phase = "live" =>
        /\ {"flair", "mod"} \subseteq DOMAIN objs[0]
        /\ objs[0]["flair"].submission = 0
        /\ objs[0]["mod"].submission = 0

(***************************************************************************)
(* Properties of the read in steps.                                        *)
(***************************************************************************)
\* The callers whose fetch is in flight: the request is sent and the flag
\* is not yet set.
InFlight == {c \in DOMAIN callers : callers[c].pc \in {"sent", "merged",
                                                        "updated"}}

\* C18: with concurrent callers reading absent attributes of the entity, at
\* most one fetch is in flight and at most one request is ever sent.
C18_SingleFlight ==
    /\ Cardinality(InFlight) <= 1
    /\ Len(gets) <= 1

\* C19: every attribute read ends, with the value or with one of the errors
\* of the read, after at most one request: the fetch never re-enters the
\* lazy read for an attribute it needs itself.
C19_ReadTerminates ==
    [][ReadStep =>
         /\ last'.out \in {"value", "AttributeError", "TransportError",
                           "IndexError"}
         /\ Len(gets') <= Len(gets) + 1
      ]_vars

\* C20: whenever fetchedFlag is true the entity has a comment forest, the
\* forest is bound to the entity, and it holds the secondary part of the
\* reply of a fetch that has set the flag: the merge and the update came
\* before the flag.
C20_TreeReady ==
    objs[0]["_fetched"] =>
        /\ "comments" \in DOMAIN objs[0]
        /\ forests[objs[0]["comments"]].submission = 0
        /\ \E c \in DOMAIN callers :
               /\ callers[c].pc \in {"flagged", "done"}
               /\ callers[c].nodes # {}
               /\ callers[c].nodes \subseteq forests[objs[0]["comments"]].nodes

\* C20 witness: the caller's read of the comments ended with the value after
\* its fetch, and the entity's forest holds the reply's nodes.
C20_Witness ==
    /\ objs[0]["_fetched"]
    /\ callers[1].pc = "done" /\ callers[1].name = "comments"
    /\ callers[1].out = "value"
    /\ Len(gets) = 1
    /\ forests[objs[0]["comments"]].nodes = callers[1].nodes

====
